---- MODULE Spec2Model ----
(***************************************************************************)
(* Conversions between chrono's NaiveDate / NaiveTime / NaiveDateTime /    *)
(* Duration and Python's datetime.date / time / datetime / timedelta, as   *)
(* implemented in src/src/lib.rs.                                          *)
(*                                                                         *)
(* Rust's i64 and i32 values do not fit the model checker's machine        *)
(* integers, so every Rust integer of the Duration path is an exact        *)
(* arbitrary-precision integer: a record [neg, mag] whose magnitude is a   *)
(* sequence of limbs in radix Base, least significant limb first.  Width   *)
(* (i64, i32) is applied explicitly where the code relies on it.           *)
(***************************************************************************)
EXTENDS Integers, Sequences, FiniteSets, TLC

VARIABLES orig, prev, cur, hist, locals, reads

vars == <<orig, prev, cur, hist, locals, reads>>

-----------------------------------------------------------------------------
(* Exact integer arithmetic.                                               *)

Base == 10 ^ 4

Max(a, b) == IF a >= b THEN a ELSE b

RECURSIVE Trim(_)
Trim(a) ==
    IF a = <<>> THEN a
    ELSE IF a[Len(a)] = 0 THEN Trim(SubSeq(a, 1, Len(a) - 1))
    ELSE a

RECURSIVE NatOfInt(_)
NatOfInt(n) == IF n = 0 THEN <<>> ELSE <<n % Base>> \o NatOfInt(n \div Base)

Limb(a, i) == IF i <= Len(a) THEN a[i] ELSE 0

RECURSIVE NatCmpFrom(_, _, _)
NatCmpFrom(a, b, i) ==
    IF i = 0 THEN 0
    ELSE IF Limb(a, i) < Limb(b, i) THEN -1
    ELSE IF Limb(a, i) > Limb(b, i) THEN 1
    ELSE NatCmpFrom(a, b, i - 1)

NatCmp(a, b) == NatCmpFrom(a, b, Max(Len(a), Len(b)))

RECURSIVE NatAddFrom(_, _, _, _)
NatAddFrom(a, b, i, carry) ==
    IF i > Max(Len(a), Len(b))
    THEN (IF carry = 0 THEN <<>> ELSE <<carry>>)
    ELSE LET s == Limb(a, i) + Limb(b, i) + carry
         IN  <<s % Base>> \o NatAddFrom(a, b, i + 1, s \div Base)

NatAdd(a, b) == NatAddFrom(a, b, 1, 0)

\* a - b for a >= b
RECURSIVE NatSubFrom(_, _, _, _)
NatSubFrom(a, b, i, borrow) ==
    IF i > Len(a) THEN <<>>
    ELSE LET s == Limb(a, i) - Limb(b, i) - borrow
         IN  IF s < 0
             THEN <<s + Base>> \o NatSubFrom(a, b, i + 1, 1)
             ELSE <<s>> \o NatSubFrom(a, b, i + 1, 0)

NatSub(a, b) == Trim(NatSubFrom(a, b, 1, 0))

\* a * k for one limb k in 0 .. Base - 1
RECURSIVE NatMulLimbFrom(_, _, _, _)
NatMulLimbFrom(a, k, i, carry) ==
    IF i > Len(a) THEN NatOfInt(carry)
    ELSE LET p == a[i] * k + carry
         IN  <<p % Base>> \o NatMulLimbFrom(a, k, i + 1, p \div Base)

NatMulLimb(a, k) == Trim(NatMulLimbFrom(a, k, 1, 0))

RECURSIVE NatMulFrom(_, _, _)
NatMulFrom(a, b, j) ==
    IF j > Len(b) THEN <<>>
    ELSE NatAdd(NatMulLimb(a, b[j]), <<0>> \o NatMulFrom(a, b, j + 1))

NatMul(a, b) == Trim(NatMulFrom(a, b, 1))

\* the largest k in lo .. hi - 1 with d * k <= c, given d * lo <= c < d * hi
RECURSIVE QuotDigit(_, _, _, _)
QuotDigit(c, d, lo, hi) ==
    IF hi - lo <= 1 THEN lo
    ELSE LET mid == (lo + hi) \div 2
         IN  IF NatCmp(NatMulLimb(d, mid), c) <= 0
             THEN QuotDigit(c, d, mid, hi)
             ELSE QuotDigit(c, d, lo, mid)

\* long division of the limbs i .. Len(a) of a by d # 0
RECURSIVE NatDivModFrom(_, _, _)
NatDivModFrom(a, d, i) ==
    IF i > Len(a) THEN [q |-> <<>>, r |-> <<>>]
    ELSE LET hi    == NatDivModFrom(a, d, i + 1)
             c     == Trim(<<a[i]>> \o hi.r)
             digit == QuotDigit(c, d, 0, Base)
         IN  [q |-> Trim(<<digit>> \o hi.q), r |-> NatSub(c, NatMulLimb(d, digit))]

NatDivMod(a, d) == NatDivModFrom(a, d, 1)

RECURSIVE NatToInt(_)
NatToInt(a) == IF a = <<>> THEN 0 ELSE a[1] + Base * NatToInt(Tail(a))

MkInt(neg, mag) == [neg |-> neg /\ mag # <<>>, mag |-> mag]

\* a machine-sized integer as an exact integer
Int_(n) == IF n < 0 THEN MkInt(TRUE, NatOfInt(0 - n)) ELSE MkInt(FALSE, NatOfInt(n))

\* an exact integer known to be machine-sized, as a machine integer
Small(a) == IF a.neg THEN 0 - NatToInt(a.mag) ELSE NatToInt(a.mag)

Zero == Int_(0)

INeg(a) == MkInt(~a.neg, a.mag)

IAdd(a, b) ==
    IF a.neg = b.neg THEN MkInt(a.neg, NatAdd(a.mag, b.mag))
    ELSE IF NatCmp(a.mag, b.mag) >= 0 THEN MkInt(a.neg, NatSub(a.mag, b.mag))
    ELSE MkInt(b.neg, NatSub(b.mag, a.mag))

ISub(a, b) == IAdd(a, INeg(b))

IMul(a, b) == MkInt(a.neg # b.neg, NatMul(a.mag, b.mag))

ICmp(a, b) ==
    IF a.neg /\ ~b.neg THEN -1
    ELSE IF ~a.neg /\ b.neg THEN 1
    ELSE IF a.neg THEN NatCmp(b.mag, a.mag)
    ELSE NatCmp(a.mag, b.mag)

ILt(a, b) == ICmp(a, b) < 0
ILe(a, b) == ICmp(a, b) <= 0

\* Rust's integer / and %: the quotient truncates toward zero, the remainder
\* has the sign of the dividend
IDiv(a, b) == MkInt(a.neg # b.neg, NatDivMod(a.mag, b.mag).q)
IRem(a, b) == MkInt(a.neg, NatDivMod(a.mag, b.mag).r)

\* floor division and its non-negative remainder, for a divisor b > 0
IFloorDiv(a, b) ==
    IF IRem(a, b).neg THEN ISub(IDiv(a, b), Int_(1)) ELSE IDiv(a, b)
IFloorMod(a, b) ==
    IF IRem(a, b).neg THEN IAdd(IRem(a, b), b) ELSE IRem(a, b)

\* i32::MAX, i32::MIN, i64::MAX, i64::MIN: 2^31 - 1, -2^31, 2^63 - 1, -2^63
I32_MAX == Int_(2147483647)
I32_MIN == INeg(IAdd(I32_MAX, Int_(1)))
I64_MIN == IMul(IMul(I32_MIN, I32_MIN), Int_(-2))
I64_MAX == ISub(INeg(I64_MIN), Int_(1))

InI64(a) == ILe(I64_MIN, a) /\ ILe(a, I64_MAX)
InI32(a) == ILe(I32_MIN, a) /\ ILe(a, I32_MAX)

\* saturate to the i64 range
ClampI64(a) == IF ILt(a, I64_MIN) THEN I64_MIN ELSE IF ILt(I64_MAX, a) THEN I64_MAX ELSE a

\* i64::saturating_mul, i64::saturating_add
saturating_mul(a, b) == ClampI64(IMul(a, b))
saturating_add(a, b) == ClampI64(IAdd(a, b))

\* Option<T>, Option::unwrap_or
None == [some |-> FALSE]
Some(v) == [some |-> TRUE, val |-> v]
unwrap_or(o, default) == IF o.some THEN o.val ELSE default

\* i64 -> i32 by TryInto
try_into_i32(a) == IF InI32(a) THEN Some(a) ELSE None

\* i64 -> i32 by `as`: the low 32 bits, read as two's complement
as_i32(a) ==
    LET two32 == IMul(Int_(65536), Int_(65536))
        low   == IFloorMod(a, two32)
    IN  IF ILe(low, I32_MAX) THEN low ELSE ISub(low, two32)

\* u32 -> u8 by `as`
as_u8(n) == n % 256

\* u32::checked_sub
checked_sub(a, b) == IF a >= b THEN Some(a - b) ELSE None

-----------------------------------------------------------------------------
(* Results of the conversions.                                             *)

Ok(v) == [ok |-> TRUE, val |-> v]
Err(e) == [ok |-> FALSE, err |-> e]

TypeMismatch == [side |-> "error", kind |-> "TypeMismatch"]
Panic == [side |-> "error", kind |-> "Panic"]

-----------------------------------------------------------------------------
(* The calendar library: chrono's values and constructors.                 *)

IsLeapYear(y) == (y % 4 = 0 /\ y % 100 # 0) \/ y % 400 = 0

DaysInMonth(y, m) ==
    IF m = 2 THEN (IF IsLeapYear(y) THEN 29 ELSE 28)
    ELSE IF m \in {4, 6, 9, 11} THEN 30
    ELSE 31

ValidYmd(y, m, d) == m \in 1..12 /\ d >= 1 /\ d <= DaysInMonth(y, m)

\* chrono::NaiveDate::from_ymd_opt
from_ymd(y, m, d) ==
    IF ValidYmd(y, m, d)
    THEN Ok([side |-> "host", kind |-> "Date", year |-> y, month |-> m, day |-> d])
    ELSE Err(Panic)

\* chrono::NaiveTime::from_hms_micro_opt: a microsecond of 1_000_000 and more
\* is the leap second
from_hms_micro(h, mi, s, micro) ==
    IF h < 24 /\ mi < 60 /\ s < 60 /\ micro < 2000000
    THEN Ok([side |-> "host", kind |-> "Time", hour |-> h, minute |-> mi,
             second |-> s, nanosecond |-> micro * 1000])
    ELSE Err(Panic)

\* chrono::NaiveDate::and_hms_micro_opt
and_hms_micro(date, h, mi, s, micro) ==
    IF h < 24 /\ mi < 60 /\ s < 60 /\ micro < 2000000
    THEN Ok([side |-> "host", kind |-> "DateTime", year |-> date.year,
             month |-> date.month, day |-> date.day, hour |-> h, minute |-> mi,
             second |-> s, nanosecond |-> micro * 1000])
    ELSE Err(Panic)

\* chrono::Duration::microseconds
Duration_microseconds(t) == [side |-> "host", kind |-> "Duration", micros |-> t]

\* chrono::Duration::num_microseconds: None when the count does not fit i64
num_microseconds(d) == IF InI64(d.micros) THEN Some(d.micros) ELSE None

-----------------------------------------------------------------------------
(* The embedded runtime: Python's datetime objects.                        *)

MINYEAR == 1
MAXYEAR == 9999
MAX_DELTA_DAYS == 999999999

\* datetime.date(year, month, day)
PyDate_new(year, month, day) ==
    IF year >= MINYEAR /\ year <= MAXYEAR /\ ValidYmd(year, month, day)
    THEN Ok([side |-> "native", shape |-> "date",
             year |-> year, month |-> month, day |-> day])
    ELSE Err("ValueError")

\* datetime.time(hour, minute, second, microsecond, fold=fold)
PyTime_new_with_fold(hour, minute, second, microsecond, fold) ==
    IF hour < 24 /\ minute < 60 /\ second < 60 /\ microsecond < 1000000
    THEN Ok([side |-> "native", shape |-> "time", hour |-> hour, minute |-> minute,
             second |-> second, microsecond |-> microsecond, fold |-> fold])
    ELSE Err("ValueError")

\* datetime.datetime(year, month, day, hour, minute, second, microsecond, fold=fold)
PyDateTime_new_with_fold(year, month, day, hour, minute, second, microsecond, fold) ==
    IF /\ year >= MINYEAR /\ year <= MAXYEAR /\ ValidYmd(year, month, day)
       /\ hour < 24 /\ minute < 60 /\ second < 60 /\ microsecond < 1000000
    THEN Ok([side |-> "native", shape |-> "datetime",
             year |-> year, month |-> month, day |-> day,
             hour |-> hour, minute |-> minute, second |-> second,
             microsecond |-> microsecond, fold |-> fold])
    ELSE Err("ValueError")

\* datetime.timedelta built from i32 days, seconds, microseconds with
\* normalize = true: microseconds are carried into seconds and seconds into
\* days, so that 0 <= seconds < 86400 and 0 <= microseconds < 1000000; a day
\* count beyond +-999999999 is an OverflowError
PyDelta_new(days, seconds, microseconds) ==
    LET us == IFloorMod(microseconds, Int_(1000000))
        s1 == IAdd(seconds, IFloorDiv(microseconds, Int_(1000000)))
        s  == IFloorMod(s1, Int_(86400))
        d  == IAdd(days, IFloorDiv(s1, Int_(86400)))
    IN  IF ILe(Int_(0 - MAX_DELTA_DAYS), d) /\ ILe(d, Int_(MAX_DELTA_DAYS))
        THEN Ok([side |-> "native", shape |-> "timedelta", days |-> Small(d),
                 seconds |-> Small(s), microseconds |-> Small(us)])
        ELSE Err("OverflowError")

\* a conversion that takes the object for the target type without checking
PyTryFrom_unchecked(ob, target) == ob.side = "native"

\* PyTryFrom::try_from: the isinstance check of the target type;
\* datetime.datetime is a subclass of datetime.date
PyTryFrom(ob, target) ==
    ob.shape = target \/ (target = "date" /\ ob.shape = "datetime")

\* the accessors of PyDateAccess, PyTimeAccess and PyDeltaAccess
Field(ob, name) == IF name \in DOMAIN ob THEN ob[name] ELSE 0
get_year(ob) == Field(ob, "year")
get_month(ob) == Field(ob, "month")
get_day(ob) == Field(ob, "day")
get_hour(ob) == Field(ob, "hour")
get_minute(ob) == Field(ob, "minute")
get_second(ob) == Field(ob, "second")
get_microsecond(ob) == Field(ob, "microsecond")
get_fold(ob) == IF "fold" \in DOMAIN ob THEN ob.fold ELSE FALSE
get_days(ob) == Field(ob, "days")
get_seconds(ob) == Field(ob, "seconds")
get_microseconds(ob) == Field(ob, "microseconds")

-----------------------------------------------------------------------------
(* The leap-second codec.                                                  *)

\* the encoding with the leap second left in the microsecond
chrono_to_micros_and_fold_no_leap(time) ==
    [micros |-> time.nanosecond \div 1000, fold |-> FALSE]

\* the encoding with the microsecond rounded up
chrono_to_micros_and_fold_rounding(time) ==
    LET folded_nanos == checked_sub(time.nanosecond, 1000000000)
    IN  IF folded_nanos.some
        THEN [micros |-> (folded_nanos.val + 999) \div 1000, fold |-> TRUE]
        ELSE [micros |-> (time.nanosecond + 999) \div 1000, fold |-> FALSE]

chrono_to_micros_and_fold(time) ==
    LET folded_nanos == checked_sub(time.nanosecond, 1000000000)
    IN  IF folded_nanos.some
        THEN [micros |-> folded_nanos.val \div 1000, fold |-> TRUE]
        ELSE [micros |-> time.nanosecond \div 1000, fold |-> FALSE]

\* the decoding with the fold flag dropped
py_to_micros_ignoring_fold(time) == get_microsecond(time)

py_to_micros(time) ==
    IF get_fold(time)
    THEN get_microsecond(time) + 1000000
    ELSE get_microsecond(time)


-----------------------------------------------------------------------------
(* The four adapters.  Each returns the value it produces (out), the       *)
(* values of its local variables (locals) and the accessors it read from   *)
(* the native object (reads).                                              *)

NoLocals ==
    [micros |-> 0, fold |-> FALSE,
     total_micros |-> Zero, quotient |-> Zero, fallback |-> FALSE,
     total_days |-> Zero, remainder |-> Zero, subday_micros |-> Zero,
     total_seconds |-> Zero, total_microseconds |-> Zero]

Outcome(out, loc, rd) == [out |-> out, locals |-> loc, reads |-> rd]

\* Result::unwrap of a constructed native object
unwrap(r) == IF r.ok THEN r.val ELSE Panic

DateReads == {"get_year", "get_month", "get_day"}
TimeReads == {"get_hour", "get_minute", "get_second", "get_microsecond", "get_fold"}
DeltaReads == {"get_days", "get_seconds", "get_microseconds"}

NaiveDateTime_to_object(self) ==
    LET mf == chrono_to_micros_and_fold(self)
    IN  Outcome(unwrap(PyDateTime_new_with_fold(
                    self.year, as_u8(self.month), as_u8(self.day),
                    as_u8(self.hour), as_u8(self.minute), as_u8(self.second),
                    mf.micros, mf.fold)),
                [NoLocals EXCEPT !.micros = mf.micros, !.fold = mf.fold], {})

NaiveDateTime_extract(ob) ==
    IF ~PyTryFrom(ob, "datetime") THEN Outcome(TypeMismatch, NoLocals, {})
    ELSE LET date == from_ymd(get_year(ob), get_month(ob), get_day(ob))
             dt   == IF date.ok
                     THEN and_hms_micro(date.val, get_hour(ob), get_minute(ob),
                                        get_second(ob), py_to_micros(ob))
                     ELSE date
         IN  Outcome(unwrap(dt), NoLocals, DateReads \cup TimeReads)

NaiveDate_to_object(self) ==
    Outcome(unwrap(PyDate_new(self.year, as_u8(self.month), as_u8(self.day))),
            NoLocals, {})

\* the extraction with month and day exchanged
NaiveDate_extract_swapped(ob) ==
    IF ~PyTryFrom(ob, "date") THEN Outcome(TypeMismatch, NoLocals, {})
    ELSE Outcome(unwrap(from_ymd(get_year(ob), get_day(ob), get_month(ob))),
                 NoLocals, DateReads)

NaiveDate_extract(ob) ==
    IF ~PyTryFrom(ob, "date") THEN Outcome(TypeMismatch, NoLocals, {})
    ELSE Outcome(unwrap(from_ymd(get_year(ob), get_month(ob), get_day(ob))),
                 NoLocals, DateReads)

NaiveTime_to_object(self) ==
    LET mf == chrono_to_micros_and_fold(self)
    IN  Outcome(unwrap(PyTime_new_with_fold(
                    as_u8(self.hour), as_u8(self.minute), as_u8(self.second),
                    mf.micros, mf.fold)),
                [NoLocals EXCEPT !.micros = mf.micros, !.fold = mf.fold], {})

NaiveTime_extract(ob) ==
    IF ~PyTryFrom(ob, "time") THEN Outcome(TypeMismatch, NoLocals, {})
    ELSE Outcome(unwrap(from_hms_micro(get_hour(ob), get_minute(ob),
                                       get_second(ob), py_to_micros(ob))),
                 NoLocals, TimeReads)

\* the constant with the hours of a day left out
MICROSECONDS_PER_DAY_without_hours ==
    IMul(IMul(Int_(60), Int_(60)), Int_(1000000))

MICROSECONDS_PER_DAY == IMul(IMul(IMul(Int_(60), Int_(60)), Int_(24)), Int_(1000000))

Duration_to_object(self) ==
    LET total_micros  == unwrap_or(num_microseconds(self), I64_MAX)
        quotient      == IDiv(total_micros, MICROSECONDS_PER_DAY)
        converted     == try_into_i32(quotient)
        total_days    == unwrap_or(converted, I32_MAX)
        remainder     == IRem(total_micros, MICROSECONDS_PER_DAY)
        subday_micros == as_i32(remainder)
    IN  Outcome(unwrap(PyDelta_new(total_days, Zero, subday_micros)),
                [NoLocals EXCEPT !.total_micros = total_micros,
                                 !.quotient = quotient,
                                 !.fallback = ~converted.some,
                                 !.total_days = total_days,
                                 !.remainder = remainder,
                                 !.subday_micros = subday_micros], {})

Duration_extract(ob) ==
    IF ~PyTryFrom(ob, "timedelta") THEN Outcome(TypeMismatch, NoLocals, {})
    ELSE LET total_days    == Int_(get_days(ob))
             total_seconds ==
                 IAdd(IMul(IMul(IMul(total_days, Int_(24)), Int_(60)), Int_(60)),
                      Int_(get_seconds(ob)))
             total_microseconds ==
                 saturating_add(saturating_mul(total_seconds, Int_(1000000)),
                                Int_(get_microseconds(ob)))
         IN  Outcome(Duration_microseconds(total_microseconds),
                     [NoLocals EXCEPT !.total_days = total_days,
                                      !.total_seconds = total_seconds,
                                      !.total_microseconds = total_microseconds],
                     DeltaReads)

-----------------------------------------------------------------------------
(* The values the conversions are applied to.                              *)

MaxSteps == 4

Years == {1, 2016, 2020, 9999}
Months == {1, 2, 12}
Days == {1, 28, 29, 31}
Clocks == {<<0, 0, 0>>, <<11, 22, 33>>, <<23, 59, 59>>}
Micros == {0, 1, 123456, 999999}
SubMicros == {0, 1, 999}
DateTimeDates == {<<1, 1, 1>>, <<2016, 12, 31>>, <<2020, 2, 29>>, <<9999, 12, 31>>}
\* dates chrono holds and Python does not
HostOnlyDates == {<<0, 12, 31>>, <<10000, 1, 1>>}

Dates == {ymd \in Years \X Months \X Days : ValidYmd(ymd[1], ymd[2], ymd[3])}

\* nanosecond-of-second of a host time: the leap second is one second more
Nanos(micro, leap, sub) == (micro + (IF leap THEN 1000000 ELSE 0)) * 1000 + sub

HostDate(ymd) ==
    [side |-> "host", kind |-> "Date", year |-> ymd[1], month |-> ymd[2], day |-> ymd[3]]

HostTime(hms, nanos) ==
    [side |-> "host", kind |-> "Time", hour |-> hms[1], minute |-> hms[2],
     second |-> hms[3], nanosecond |-> nanos]

HostDateTime(ymd, hms, nanos) ==
    [side |-> "host", kind |-> "DateTime", year |-> ymd[1], month |-> ymd[2],
     day |-> ymd[3], hour |-> hms[1], minute |-> hms[2], second |-> hms[3],
     nanosecond |-> nanos]

NativeDate(ymd) ==
    [side |-> "native", shape |-> "date", year |-> ymd[1], month |-> ymd[2], day |-> ymd[3]]

NativeTime(hms, micro, fold) ==
    [side |-> "native", shape |-> "time", hour |-> hms[1], minute |-> hms[2],
     second |-> hms[3], microsecond |-> micro, fold |-> fold]

NativeDateTime(ymd, hms, micro, fold) ==
    [side |-> "native", shape |-> "datetime", year |-> ymd[1], month |-> ymd[2],
     day |-> ymd[3], hour |-> hms[1], minute |-> hms[2], second |-> hms[3],
     microsecond |-> micro, fold |-> fold]

NativeDelta(d, s, us) ==
    [side |-> "native", shape |-> "timedelta", days |-> d, seconds |-> s,
     microseconds |-> us]

\* the exact number of microseconds in d days, s seconds and us microseconds
Total(d, s, us) ==
    IAdd(IAdd(IMul(Int_(d), IMul(Int_(86400), Int_(1000000))),
              IMul(Int_(s), Int_(1000000))),
         Int_(us))

HostDurationDays == {-106751991, -10000, -1, 0, 1, 156, 106751991}
HostDurationSeconds == {0, 32, 2147, 2160, 14454, 86399}
HostDurationMicros == {0, 1, 415178, 483647, 483648, 775807, 999999}

DeltaDays ==
    {-999999999, -106751992, -106751991, -10000, -1, 0, 1, 156, 106751991,
     106751992, 999999999}
DeltaSeconds == {0, 32, 2160, 14454, 14455, 71944, 71945, 86399}
DeltaMicros == {0, 1, 224191, 224192, 415178, 775807, 775808, 999999}

HostValues ==
    {HostDate(ymd) : ymd \in Dates \cup HostOnlyDates}
    \cup {HostTime(hms, Nanos(m, l, sub)) :
              hms \in Clocks, m \in Micros, l \in BOOLEAN, sub \in SubMicros}
    \cup {HostDateTime(ymd, hms, Nanos(m, l, sub)) :
              ymd \in DateTimeDates \cup HostOnlyDates, hms \in Clocks,
              m \in Micros, l \in BOOLEAN, sub \in SubMicros}
    \cup {Duration_microseconds(Total(d, s, us)) :
              d \in HostDurationDays, s \in HostDurationSeconds,
              us \in HostDurationMicros}
    \cup {Duration_microseconds(t) : t \in {I64_MAX, I64_MIN, I32_MAX, I32_MIN}}

NativeValues ==
    {NativeDate(ymd) : ymd \in Dates}
    \cup {NativeTime(hms, m, f) : hms \in Clocks, m \in Micros, f \in BOOLEAN}
    \cup {NativeDateTime(ymd, hms, m, f) :
              ymd \in DateTimeDates, hms \in Clocks, m \in Micros, f \in BOOLEAN}
    \cup {NativeDelta(d, s, us) :
              d \in DeltaDays, s \in DeltaSeconds, us \in DeltaMicros}

-----------------------------------------------------------------------------
(* The state machine: a value, host or native, and the conversions applied *)
(* to it one after the other.                                              *)

Init ==
    /\ orig \in HostValues \cup NativeValues
    /\ prev = orig
    /\ cur = orig
    /\ hist = <<>>
    /\ locals = NoLocals
    /\ reads = {}

Apply(name, r) ==
    /\ Len(hist) < MaxSteps
    /\ prev' = cur
    /\ cur' = r.out
    /\ hist' = Append(hist, name)
    /\ locals' = r.locals
    /\ reads' = r.reads
    /\ UNCHANGED orig

IsHost(kind) == cur.side = "host" /\ cur.kind = kind
IsNative == cur.side = "native"

NaiveDateTimeToObject ==
    IsHost("DateTime") /\ Apply(<<"to_object", "DateTime">>, NaiveDateTime_to_object(cur))

NaiveDateTimeExtract ==
    IsNative /\ Apply(<<"extract", "DateTime">>, NaiveDateTime_extract(cur))

NaiveDateToObject ==
    IsHost("Date") /\ Apply(<<"to_object", "Date">>, NaiveDate_to_object(cur))

NaiveDateExtract ==
    IsNative /\ Apply(<<"extract", "Date">>, NaiveDate_extract(cur))

NaiveTimeToObject ==
    IsHost("Time") /\ Apply(<<"to_object", "Time">>, NaiveTime_to_object(cur))

NaiveTimeExtract ==
    IsNative /\ Apply(<<"extract", "Time">>, NaiveTime_extract(cur))

DurationToObject ==
    IsHost("Duration") /\ Apply(<<"to_object", "Duration">>, Duration_to_object(cur))

DurationExtract ==
    IsNative /\ Apply(<<"extract", "Duration">>, Duration_extract(cur))

Next ==
    \/ NaiveDateTimeToObject
    \/ NaiveDateTimeExtract
    \/ NaiveDateToObject
    \/ NaiveDateExtract
    \/ NaiveTimeToObject
    \/ NaiveTimeExtract
    \/ DurationToObject
    \/ DurationExtract

Spec == Init /\ [][Next]_vars

-----------------------------------------------------------------------------
(* Properties.                                                             *)

LastIs(op, adapter) == hist # <<>> /\ hist[Len(hist)] = <<op, adapter>>

RoundTrip(first, second, adapter) == hist = <<<<first, adapter>>, <<second, adapter>>>>

TwoRoundTrips(adapter) ==
    hist = <<<<"to_object", adapter>>, <<"extract", adapter>>,
             <<"to_object", adapter>>, <<"extract", adapter>>>>

IAbs(a) == MkInt(FALSE, a.mag)

\* the true total of a normalised native duration
TrueTotal(delta) == Total(delta.days, delta.seconds, delta.microseconds)

\* the native shapes an adapter takes: a datetime is also a date
Accepted(adapter) ==
    CASE adapter = "Date" -> {"date", "datetime"}
      [] adapter = "Time" -> {"time"}
      [] adapter = "DateTime" -> {"datetime"}
      [] adapter = "Duration" -> {"timedelta"}

ShapeOf(adapter) ==
    CASE adapter = "Date" -> "date"
      [] adapter = "Time" -> "time"
      [] adapter = "DateTime" -> "datetime"
      [] adapter = "Duration" -> "timedelta"

InPythonRange(host) ==
    host.kind = "Time" \/ (host.year >= 1 /\ host.year <= 9999)

\* C1: a host Duration whose microsecond count is any i64 value comes back
\* with exactly that count after render-to-native and construct-from-native.
C1_DurationRoundTripExact ==
    (RoundTrip("to_object", "extract", "Duration") /\ InI64(orig.micros))
        => cur = orig

\* C2: Date, Time and DateTime round trips are exact in both directions for
\* years 1..9999, whole microseconds and either leap flag: host -> native ->
\* host gives the host value back, native -> host -> native gives the native
\* object back, and no error is raised, the boundary dates included.
C2_CalendarRoundTripExact ==
    \A adapter \in {"Date", "Time", "DateTime"} :
        /\ (/\ RoundTrip("to_object", "extract", adapter)
            /\ InPythonRange(orig)
            /\ (adapter # "Date" => orig.nanosecond % 1000 = 0))
               => cur = orig
        /\ (/\ RoundTrip("extract", "to_object", adapter)
            /\ orig.shape = ShapeOf(adapter))
               => cur = orig

C2_Witness ==
    /\ RoundTrip("extract", "to_object", "DateTime")
    /\ orig = NativeDateTime(<<9999, 12, 31>>, <<23, 59, 59>>, 999999, TRUE)
    /\ prev = HostDateTime(<<9999, 12, 31>>, <<23, 59, 59>>, 1999999000)
    /\ cur = orig

\* C3: construct-from-native of a normalised native duration never fails, and
\* a true total above i64::MAX gives exactly i64::MAX, a true total below
\* i64::MIN exactly i64::MIN.
C3_SaturatesToNearestBound ==
    (LastIs("extract", "Duration") /\ prev.shape = "timedelta")
        => /\ cur.side = "host"
           /\ ILt(I64_MAX, TrueTotal(prev)) => cur.micros = I64_MAX
           /\ ILt(TrueTotal(prev), I64_MIN) => cur.micros = I64_MIN

\* C4: construct-from-native of a normalised native duration whose true total
\* lies within the i64 range gives exactly that total.
C4_ExactInsideRange ==
    (/\ LastIs("extract", "Duration")
     /\ prev.shape = "timedelta"
     /\ InI64(TrueTotal(prev)))
        => cur = Duration_microseconds(TrueTotal(prev))

\* C5: construct-from-native of any of the four adapters on a native object
\* that is not of the adapter's native shape gives TypeMismatch, never a host
\* value, and reads no component accessor.
C5_TypeMismatchOnWrongShape ==
    \A adapter \in {"Date", "Time", "DateTime", "Duration"} :
        (LastIs("extract", adapter) /\ prev.shape \notin Accepted(adapter))
            => cur = TypeMismatch /\ reads = {}

C5_Witness ==
    /\ LastIs("extract", "Date")
    /\ prev.shape = "timedelta"
    /\ cur = TypeMismatch
    /\ reads = {}

\* C6: on a nanosecond-of-second that is a whole number of microseconds,
\* chrono_to_micros_and_fold gives (k, true) for 1_000_000_000 + k * 1000 and
\* (k, false) for k * 1000, and py_to_micros of that pair, times 1000, is the
\* nanosecond-of-second again.
C6_LeapCodecInverse ==
    \A adapter \in {"Time", "DateTime"} :
        (LastIs("to_object", adapter) /\ prev.nanosecond % 1000 = 0)
            => LET n == prev.nanosecond
                   encoded == [microsecond |-> locals.micros, fold |-> locals.fold]
               IN  /\ n >= 1000000000
                         => locals.fold /\ locals.micros * 1000 = n - 1000000000
                   /\ n < 1000000000
                         => ~locals.fold /\ locals.micros * 1000 = n
                   /\ py_to_micros(encoded) * 1000 = n

C6_Witness ==
    /\ LastIs("to_object", "Time")
    /\ prev.nanosecond = 1999999000
    /\ locals.micros = 999999
    /\ locals.fold
    /\ py_to_micros(cur) = 1999999

\* C7: for every i64 microsecond count, the remainder modulo 86_400_000_000
\* computed by Duration render-to-native lies within the i32 range, so the
\* cast to i32 leaves it unchanged.
C7_SubdayMicrosFitI32 ==
    (LastIs("to_object", "Duration") /\ InI64(prev.micros))
        => InI32(locals.remainder) /\ locals.subday_micros = locals.remainder

\* C8: for every nanosecond-of-second, whole microseconds or not,
\* chrono_to_micros_and_fold gives a microsecond below 1_000_000, and the
\* fold flag exactly when the nanosecond-of-second is 1_000_000_000 or more.
C8_EncodedMicrosInRange ==
    \A adapter \in {"Time", "DateTime"} :
        LastIs("to_object", adapter)
            => /\ locals.micros < 1000000
               /\ locals.fold <=> prev.nanosecond >= 1000000000

C8_Witness ==
    /\ LastIs("to_object", "DateTime")
    /\ prev.nanosecond = 1999999999
    /\ locals.micros = 999999
    /\ locals.fold

\* C9: for every i64 microsecond count t, the truncated quotient
\* t / 86_400_000_000 lies within -106_751_991 .. 106_751_991, the i32
\* conversion succeeds without the i32::MAX fallback, and the day count handed
\* to the native constructor is that quotient, of the sign of t or zero.
C9_DayCountNeverClamped ==
    (LastIs("to_object", "Duration") /\ InI64(prev.micros))
        => LET t == prev.micros
               q == locals.total_days
               day == Total(1, 0, 0)
           IN  /\ ~locals.fallback
               /\ ILe(IAbs(q), Int_(106751991))
               /\ ILe(IMul(IAbs(q), day), IAbs(t))
               /\ ILt(IAbs(t), IMul(IAdd(IAbs(q), Int_(1)), day))
               /\ q = Zero \/ q.neg = t.neg

C9_Witness ==
    /\ LastIs("to_object", "Duration")
    /\ prev.micros = I64_MIN
    /\ locals.total_days = Int_(-106751991)
    /\ ~locals.fallback

====
